---- MODULE Spec2Model ----
(***************************************************************************)
(* hms-hmcollector: lifecycle of cmd/hmcollector (main, the signal         *)
(* handler goroutine, the HSM endpoint refresh loop, the Redfish client    *)
(* pair and its reload on a CA bundle roll) and the Intel River parsers.   *)
(*                                                                         *)
(* Strings that the code slices or parses (voltage names, member ids) are  *)
(* sequences of one-character strings; other strings are TLA+ strings.     *)
(***************************************************************************)
EXTENDS Integers, Sequences, FiniteSets, TLC

(***************************************************************************)
(* Bounds of the model                                                     *)
(***************************************************************************)
\* number of CA bundle rolls the environment performs
MaxRolls == 2

\* hmcollector.go:282  for ix := 1; ix <= 10; ix ++
MaxAttempts == 10

\* most brokers the Kafka brokers configuration file lists
MaxBrokers == 2

\* hmcollector.go:419  thisBroker.KafkaProducer.Flush(15 * 1000)
FlushTimeoutMs == 15000

EndpointIDs == {"x1", "x2"}
Statuses == {"DiscoverOK", "HTTPsGetFailed"}
Callers == {"main", "watcher"}
Requesters == {"r1", "r2"}

NoClient == [ca |-> "nil", bundle |-> 0]
NoReload == [bundle |-> 0, err |-> FALSE]

VARIABLES
    \* ---- flags (hmcollector.go:38-69), fixed by flag.Parse
    pollingEnabled, rfSubscribeEnabled, VaultEnabled, smURL, restURL,
    caURI,              \* *caURI, cleared by main on fail-over
    \* ---- main goroutine
    mainPc, ix, ok, watcherRegistered,
    WaitGroup,          \* counter of sync.WaitGroup
    RestSRV,            \* "nil" | "serving" | "shutdown"
    \* ---- createRFClient, per caller
    crfPc, crfErr,
    rfClient,           \* the shared client pair
    rfClientLock,       \* sync.RWMutex: writer, pending writers, readers
    \* ---- CA bundle and its watcher
    bundle, lastReload,
    \* ---- Redfish requests of the polling / subscription workers
    reqPc, reqClient, reqAfter,
    \* ---- signal handler goroutine
    sigPending, sigPc, Running, cancelled,
    \* ---- doUpdateHSMEndpoints
    invPc, newEndpoints, HSMEndpoints,
    lastStatus, stale, lastFetch,
    \* ---- doPolling / doRFSubscribe
    pollPc, subPc,
    \* ---- the Kafka brokers, their flushes on exit, the panic that ended
    \* ---- the process
    kafkaBrokers, flushes, panicMsg,
    \* ---- the tasks that are reading HSMEndpoints
    mapReaders,
    \* ---- one call of an IntelRiverCollector parser
    pPc, kind, payloadBytes, location, now, timestamp, events

flagVars == <<pollingEnabled, rfSubscribeEnabled, VaultEnabled, smURL, restURL>>
mainVars == <<mainPc, ix, ok, watcherRegistered, WaitGroup, RestSRV>>
crfVars  == <<crfPc, crfErr, rfClient, rfClientLock>>
caVars   == <<bundle, lastReload>>
reqVars  == <<reqPc, reqClient, reqAfter>>
sigVars  == <<sigPending, sigPc, Running, cancelled>>
invVars  == <<invPc, newEndpoints, HSMEndpoints,
              lastStatus, stale, lastFetch>>
loopVars == <<pollPc, subPc>>
pubVars  == <<kafkaBrokers, flushes, panicMsg>>

parseVars == <<pPc, kind, payloadBytes, location, now, timestamp, events>>

sysVars == <<flagVars, caURI, mainVars, crfVars, caVars, reqVars, sigVars,
             invVars, loopVars, pubVars, mapReaders>>

vars == <<sysVars, parseVars>>

\* The process runs until main returns or a goroutine panics.
Alive == mainPc \notin {"done", "panicked"}

(***************************************************************************)
(* createRFClient (hmcollector.go:196-243), called by main and by the CA   *)
(* watcher's callback.  sync.RWMutex: a Lock() that is waiting keeps new   *)
(* RLock() callers out; it is granted when no reader and no writer holds   *)
(* the mutex.                                                              *)
(***************************************************************************)
NoLock == [writer |-> "none", pending |-> {}, readers |-> {}]

\* the call is made: the caller arrives at rfClientLock.Lock() (line 226)
CallCreateRFClient(c) ==
    /\ crfPc' = [crfPc EXCEPT ![c] = "lock"]
    /\ crfErr' = [crfErr EXCEPT ![c] = FALSE]
    /\ rfClientLock' = [rfClientLock EXCEPT !.pending = @ \cup {c}]
    /\ UNCHANGED rfClient

\* rfClientLock.Lock() with no regard for the readers (faulty variant)
LockGranted_IgnoreReaders(c) ==
    rfClientLock.writer = "none"

\* rfClientLock.Lock() returns (line 226)
LockGranted(c) ==
    /\ rfClientLock.writer = "none"
    /\ rfClientLock.readers = {}

crfLock(c) ==
    /\ Alive
    /\ crfPc[c] = "lock"
    /\ LockGranted(c)
    /\ rfClientLock' = [rfClientLock EXCEPT !.writer = c, !.pending = @ \ {c}]
    /\ crfPc' = [crfPc EXCEPT ![c] = "build"]
    /\ UNCHANGED <<crfErr, rfClient>>

\* the client pair hms_certs.CreateHTTPClientPair(*caURI, ...) builds: without a
\* CA bundle when the URI is empty, else from the bundle now at the URI
BuiltClient == [ca |-> caURI, bundle |-> IF caURI = "" THEN 0 ELSE bundle]

\* lines 236-242 with the assignment of line 241 left out (faulty variant)
AfterBuild_NeverAssign(err) == rfClient

\* lines 236-242 with the assignment of line 241 made before the error is
\* looked at (faulty variant)
AfterBuild_AssignAlways(err) == BuiltClient

\* lines 236-242: rfClient after CreateHTTPClientPair returned err / a pair
AfterBuild(err) ==
    IF err THEN rfClient ELSE BuiltClient

\* lines 236-243 and the deferred Unlock (line 227)
crfBuild(c) ==
    /\ Alive
    /\ crfPc[c] = "build"
    /\ \E err \in BOOLEAN :
        /\ rfClient' = AfterBuild(err)
        /\ crfErr' = [crfErr EXCEPT ![c] = err]
    /\ rfClientLock' = [rfClientLock EXCEPT !.writer = "none"]
    /\ crfPc' = [crfPc EXCEPT ![c] = "ret"]

crfReturn(c) == crfPc' = [crfPc EXCEPT ![c] = "idle"]

(***************************************************************************)
(* main (hmcollector.go:256-434)                                           *)
(***************************************************************************)
\* lines 282-283: one more attempt while ix <= 10
mainCreate ==
    /\ mainPc = "create"
    /\ ix <= MaxAttempts
    /\ CallCreateRFClient("main")
    /\ mainPc' = "create_ret"
    /\ UNCHANGED <<parseVars, mapReaders, pubVars, flagVars, caURI, ix, ok, watcherRegistered, WaitGroup, RestSRV,
                   caVars, reqVars, sigVars, invVars, loopVars>>

\* lines 284-293: success breaks out of the loop (ix, local to the loop, is
\* gone: 0), a failure sleeps and counts
mainCreateRet ==
    /\ mainPc = "create_ret"
    /\ crfPc["main"] = "ret"
    /\ crfReturn("main")
    /\ IF ~crfErr["main"]
       THEN /\ ok' = TRUE
            /\ mainPc' = "checkok"
            /\ ix' = 0
       ELSE /\ mainPc' = IF ix + 1 <= MaxAttempts THEN "create" ELSE "checkok"
            /\ ix' = ix + 1
            /\ UNCHANGED ok
    /\ UNCHANGED <<parseVars, mapReaders, pubVars, flagVars, caURI, watcherRegistered, WaitGroup, RestSRV,
                   crfErr, rfClient, rfClientLock,
                   caVars, reqVars, sigVars, invVars, loopVars>>

\* lines 295-299: retries exhausted: clear the CA URI, make an insecure pair
mainFailover ==
    /\ mainPc = "checkok"
    /\ IF ~ok
       THEN /\ caURI' = ""
            /\ CallCreateRFClient("main")
            /\ mainPc' = "failover_ret"
       ELSE /\ mainPc' = "register"
            /\ UNCHANGED <<caURI, crfVars>>
    /\ UNCHANGED <<parseVars, mapReaders, pubVars, flagVars, ix, ok, watcherRegistered, WaitGroup, RestSRV,
                   caVars, reqVars, sigVars, invVars, loopVars>>

\* lines 300-303: panic("Can't create Redfish HTTP client!!!")
mainFailoverRet ==
    /\ mainPc = "failover_ret"
    /\ crfPc["main"] = "ret"
    /\ crfReturn("main")
    /\ mainPc' = IF crfErr["main"] THEN "panicked" ELSE "register"
    /\ panicMsg' = IF crfErr["main"] THEN "Can't create Redfish HTTP client!!!"
                                     ELSE panicMsg
    /\ UNCHANGED <<parseVars, mapReaders, kafkaBrokers, flushes, flagVars, caURI, ix, ok, watcherRegistered, WaitGroup,
                   RestSRV, crfErr, rfClient, rfClientLock,
                   caVars, reqVars, sigVars, invVars, loopVars>>

\* lines 306-315 registering the watcher whatever *caURI is (faulty variant)
RegisterWanted_Always == TRUE

\* line 306: if (*caURI != "")
RegisterWanted == caURI # ""

\* lines 306-315: hms_certs.CAUpdateRegister(*caURI, caChangeCB)
mainRegister ==
    /\ mainPc = "register"
    /\ IF RegisterWanted
       THEN \E err \in BOOLEAN : watcherRegistered' = ~err
       ELSE UNCHANGED watcherRegistered
    /\ mainPc' = "rest"
    /\ UNCHANGED <<parseVars, mapReaders, pubVars, flagVars, caURI, ix, ok, WaitGroup, RestSRV,
                   crfVars, caVars, reqVars, sigVars, invVars, loopVars>>

\* lines 330-332: WaitGroup.Add(1); doRest()
mainRest ==
    /\ mainPc = "rest"
    /\ WaitGroup' = WaitGroup + 1
    /\ RestSRV' = "serving"
    /\ mainPc' = "signal"
    /\ UNCHANGED <<parseVars, mapReaders, pubVars, flagVars, caURI, ix, ok, watcherRegistered,
                   crfVars, caVars, reqVars, sigVars, invVars, loopVars>>

\* lines 334-363: signal.Notify, the shutdown channels, go func() {...}()
mainSignal ==
    /\ mainPc = "signal"
    /\ sigPc' = "wait"
    /\ mainPc' = "vault"
    /\ UNCHANGED <<parseVars, mapReaders, pubVars, flagVars, caURI, ix, ok, watcherRegistered, WaitGroup,
                   RestSRV, crfVars, caVars, reqVars,
                   sigPending, Running, cancelled, invVars, loopVars>>

\* lines 365-370 launching the inventory loop already, before setupKafka
\* (faulty variant)
mainVault_StartsInventory ==
    /\ mainPc = "vault"
    /\ mainPc' = "kafka"
    /\ invPc' = IF pollingEnabled \/ rfSubscribeEnabled THEN "check" ELSE invPc
    /\ UNCHANGED <<parseVars, mapReaders, pubVars, flagVars, caURI, ix, ok, watcherRegistered, WaitGroup,
                   RestSRV, crfVars, caVars, reqVars, sigVars,
                   newEndpoints, HSMEndpoints,
                   lastStatus, stale, lastFetch, loopVars>>

\* lines 365-370: HSMEndpoints = make(...); setupVault()
mainVault ==
    /\ mainPc = "vault"
    /\ mainPc' = "kafka"
    /\ UNCHANGED <<parseVars, mapReaders, pubVars, flagVars, caURI, ix, ok, watcherRegistered, WaitGroup,
                   RestSRV, crfVars, caVars, reqVars, sigVars, invVars, loopVars>>

\* the broker lists setupKafka may read from the configuration file
BrokerLists == { [i \in 1..n |-> i] : n \in 1..MaxBrokers }

\* line 373: setupKafka() connects to the brokers of the configuration file
mainKafka ==
    /\ mainPc = "kafka"
    /\ mainPc' = "inv"
    /\ kafkaBrokers' \in BrokerLists
    /\ UNCHANGED <<parseVars, mapReaders, flushes, panicMsg, flagVars, caURI, ix, ok, watcherRegistered, WaitGroup,
                   RestSRV, crfVars, caVars, reqVars, sigVars, invVars, loopVars>>

\* lines 376-378: go doUpdateHSMEndpoints()
mainInventory ==
    /\ mainPc = "inv"
    /\ IF pollingEnabled \/ rfSubscribeEnabled
       THEN invPc' = "check"
       ELSE UNCHANGED invPc
    /\ mainPc' = "polling"
    /\ UNCHANGED <<parseVars, mapReaders, pubVars, flagVars, caURI, ix, ok, watcherRegistered, WaitGroup,
                   RestSRV, crfVars, caVars, reqVars, sigVars,
                   newEndpoints, HSMEndpoints,
                   lastStatus, stale, lastFetch, loopVars>>

\* lines 380-393: polling mode
mainPolling ==
    /\ mainPc = "polling"
    /\ IF pollingEnabled
       THEN IF smURL = ""
            THEN /\ mainPc' = "panicked"
                 /\ panicMsg' = "State Manager URL can NOT be empty"
                 /\ UNCHANGED <<WaitGroup, pollPc>>
            ELSE /\ WaitGroup' = WaitGroup + 1
                 /\ pollPc' = "running"
                 /\ mainPc' = "subscribe"
                 /\ UNCHANGED panicMsg
       ELSE /\ mainPc' = "subscribe"
            /\ UNCHANGED <<WaitGroup, pollPc, panicMsg>>
    /\ UNCHANGED <<parseVars, mapReaders, kafkaBrokers, flushes, flagVars, caURI, ix, ok, watcherRegistered,
                   RestSRV, crfVars, caVars, reqVars, sigVars, invVars, subPc>>

\* lines 395-407: subscription mode
mainSubscribe ==
    /\ mainPc = "subscribe"
    /\ IF rfSubscribeEnabled
       THEN IF smURL = "" \/ restURL = ""
            THEN /\ mainPc' = "panicked"
                 /\ panicMsg' = IF smURL = ""
                                 THEN "State Manager URL can NOT be empty!"
                                 ELSE "Redfish event target URL can NOT be empty!"
                 /\ UNCHANGED <<WaitGroup, subPc>>
            ELSE /\ WaitGroup' = WaitGroup + 1
                 /\ subPc' = "running"
                 /\ mainPc' = "wait"
                 /\ UNCHANGED panicMsg
       ELSE /\ mainPc' = "wait"
            /\ UNCHANGED <<WaitGroup, subPc, panicMsg>>
    /\ UNCHANGED <<parseVars, mapReaders, kafkaBrokers, flushes, flagVars, caURI, ix, ok, watcherRegistered,
                   RestSRV, crfVars, caVars, reqVars, sigVars, invVars, pollPc>>

\* line 410 returning whatever the counter is (faulty variant)
WaitReturns_Early == TRUE

\* line 410: WaitGroup.Wait() returns when the counter is zero
WaitReturns == WaitGroup = 0

\* lines 410-434: WaitGroup.Wait() returns, the flush is deferred, clean-up,
\* main comes to its end
mainExit ==
    /\ mainPc = "wait"
    /\ WaitReturns
    /\ mainPc' = "flush"
    /\ UNCHANGED <<parseVars, mapReaders, pubVars, flagVars, caURI, ix, ok, watcherRegistered, WaitGroup,
                   RestSRV, crfVars, caVars, reqVars, sigVars, invVars, loopVars>>

\* lines 413-425, the deferred function: one step per broker, idx being the
\* number of brokers flushed so far; Flush returns the number of messages
\* it abandoned, which is logged; after the last broker main has returned
mainFlush ==
    /\ mainPc = "flush"
    /\ IF Len(flushes) < Len(kafkaBrokers)
       THEN /\ \E abandonedMessages \in 0..1 :
                 flushes' = Append(flushes,
                     [broker |-> kafkaBrokers[Len(flushes) + 1],
                      timeoutMs |-> FlushTimeoutMs,
                      abandoned |-> abandonedMessages,
                      logged |-> abandonedMessages])
            /\ UNCHANGED mainPc
       ELSE /\ mainPc' = "done"
            /\ UNCHANGED flushes
    /\ UNCHANGED <<parseVars, mapReaders, kafkaBrokers, panicMsg, flagVars, caURI, ix, ok,
                   watcherRegistered, WaitGroup,
                   RestSRV, crfVars, caVars, reqVars, sigVars, invVars, loopVars>>

\* createRFClient's own steps, for main and for the watcher's callback
crfStep ==
    /\ \E c \in Callers : crfLock(c) \/ crfBuild(c)
    /\ UNCHANGED <<parseVars, mapReaders, pubVars, flagVars, caURI, mainVars, caVars, reqVars, sigVars, invVars,
                   loopVars>>

(***************************************************************************)
(* The signal handler goroutine (hmcollector.go:340-363)                   *)
(***************************************************************************)
\* SIGINT / SIGTERM is delivered into c (buffered, line 334)
sigArrives ==
    /\ Alive
    /\ sigPc = "wait"
    /\ ~sigPending
    /\ sigPending' = TRUE
    /\ UNCHANGED <<parseVars, mapReaders, pubVars, flagVars, caURI, mainVars, crfVars, caVars, reqVars,
                   sigPc, Running, cancelled, invVars, loopVars>>

\* lines 341-345 without the cancel() of line 345 (faulty variant)
sigReceive_NoCancel ==
    /\ Alive
    /\ sigPc = "wait"
    /\ sigPending
    /\ sigPending' = FALSE
    /\ Running' = FALSE
    /\ sigPc' = "send_hsm"
    /\ UNCHANGED <<parseVars, mapReaders, pubVars, flagVars, caURI, mainVars, crfVars, caVars, reqVars,
                   cancelled, invVars, loopVars>>

\* lines 341-345: <-c; Running = false; cancel()
sigReceive ==
    /\ Alive
    /\ sigPc = "wait"
    /\ sigPending
    /\ sigPending' = FALSE
    /\ Running' = FALSE
    /\ cancelled' = TRUE
    /\ sigPc' = "send_hsm"
    /\ UNCHANGED <<parseVars, mapReaders, pubVars, flagVars, caURI, mainVars, crfVars, caVars, reqVars,
                   invVars, loopVars>>

\* line 347 false: nothing to send to the inventory loop
sigSkipHSM ==
    /\ Alive
    /\ sigPc = "send_hsm"
    /\ ~(pollingEnabled \/ rfSubscribeEnabled)
    /\ sigPc' = "send_sub"
    /\ UNCHANGED <<parseVars, mapReaders, pubVars, flagVars, caURI, mainVars, crfVars, caVars, reqVars,
                   sigPending, Running, cancelled, invVars, loopVars>>

\* line 348 with line 151: the unbuffered send meets the loop's receive;
\* the loop breaks out of the select and comes back to "for Running"
sigSendHSM ==
    /\ Alive
    /\ sigPc = "send_hsm"
    /\ pollingEnabled \/ rfSubscribeEnabled
    /\ invPc = "select"
    /\ invPc' = "check_sync"
    /\ sigPc' = "send_sub"
    /\ UNCHANGED <<parseVars, mapReaders, pubVars, flagVars, caURI, mainVars, crfVars, caVars, reqVars,
                   sigPending, Running, cancelled,
                   newEndpoints, HSMEndpoints,
                   lastStatus, stale, lastFetch, loopVars>>

\* lines 351-353: RFSubscribeShutdown <- true, received by doRFSubscribe,
\* which leaves and calls WaitGroup.Done()
sigSendSub ==
    /\ Alive
    /\ sigPc = "send_sub"
    /\ IF rfSubscribeEnabled
       THEN /\ subPc = "running"
            /\ subPc' = "exited"
            /\ WaitGroup' = WaitGroup - 1
       ELSE UNCHANGED <<subPc, WaitGroup>>
    /\ sigPc' = "send_poll"
    /\ UNCHANGED <<parseVars, mapReaders, pubVars, flagVars, caURI, mainPc, ix, ok, watcherRegistered,
                   RestSRV, crfVars, caVars, reqVars,
                   sigPending, Running, cancelled, invVars, pollPc>>

\* lines 354-356: PollingShutdown <- true, received by doPolling
sigSendPoll ==
    /\ Alive
    /\ sigPc = "send_poll"
    /\ IF pollingEnabled
       THEN /\ pollPc = "running"
            /\ pollPc' = "exited"
            /\ WaitGroup' = WaitGroup - 1
       ELSE UNCHANGED <<pollPc, WaitGroup>>
    /\ sigPc' = "rest_shutdown"
    /\ UNCHANGED <<parseVars, mapReaders, pubVars, flagVars, caURI, mainPc, ix, ok, watcherRegistered,
                   RestSRV, crfVars, caVars, reqVars,
                   sigPending, Running, cancelled, invVars, subPc>>

\* lines 358-362: RestSRV.Shutdown(nil); logger.Panic on an error
sigRestShutdown ==
    /\ Alive
    /\ sigPc = "rest_shutdown"
    /\ sigPc' = "done"
    /\ IF RestSRV # "nil"
       THEN \E err \in BOOLEAN :
              IF err
              THEN /\ mainPc' = "panicked"
                   /\ panicMsg' = "Unable to stop REST collection server!"
                   /\ UNCHANGED RestSRV
              ELSE /\ RestSRV' = "shutdown"
                   /\ UNCHANGED <<mainPc, panicMsg>>
       ELSE UNCHANGED <<mainPc, RestSRV, panicMsg>>
    /\ UNCHANGED <<parseVars, mapReaders, kafkaBrokers, flushes, flagVars, caURI, ix, ok, watcherRegistered, WaitGroup,
                   crfVars, caVars, reqVars,
                   sigPending, Running, cancelled, invVars, loopVars>>

\* the REST server goroutine started by doRest: ListenAndServe returns after
\* Shutdown, then WaitGroup.Done()
restExit ==
    /\ Alive
    /\ RestSRV = "shutdown"
    /\ RestSRV' = "exited"
    /\ WaitGroup' = WaitGroup - 1
    /\ UNCHANGED <<parseVars, mapReaders, pubVars, flagVars, caURI, mainPc, ix, ok, watcherRegistered,
                   crfVars, caVars, reqVars, sigVars, invVars, loopVars>>

(***************************************************************************)
(* doUpdateHSMEndpoints (hmcollector.go:106-159)                           *)
(***************************************************************************)
\* what HSM may report about one endpoint; User/Password come with it
Descriptions == [ID : EndpointIDs, LastStatus : Statuses, creds : {"hsm"}]

\* the lists hmcollector.GetEndpointList may return: HSM keys its endpoints
\* by ID, so no ID comes twice
EndpointLists ==
    UNION { { l \in [1..n -> Descriptions] :
                \A i, j \in 1..n : l[i].ID = l[j].ID => i = j } :
            n \in 0..Cardinality(EndpointIDs) }

\* every read of Running taken as unordered with the handler's write, the
\* one after the receive too (faulty variant)
RunningSeen_Unordered == {Running, TRUE}

\* the value of Running the loop condition reads.  Running is written by the
\* signal handler without synchronisation: only a read that follows the
\* receive on hsmEndpointRefreshShutdown is ordered after the write; any
\* other read may still see the initial true.
RunningSeen == IF invPc = "check_sync" THEN {Running} ELSE {Running, TRUE}

\* line 107: for Running
invCheck ==
    /\ Alive
    /\ invPc \in {"check", "check_sync"}
    /\ \E seen \in RunningSeen :
         invPc' = IF seen THEN "get" ELSE "exited"
    /\ UNCHANGED <<parseVars, mapReaders, pubVars, flagVars, caURI, mainVars, crfVars, caVars, reqVars, sigVars,
                   newEndpoints, HSMEndpoints,
                   lastStatus, stale, lastFetch, loopVars>>

\* lines 109-113: GetEndpointList; nothing usable goes straight to the select
invGet ==
    /\ Alive
    /\ invPc = "get"
    /\ \E err \in BOOLEAN, l \in EndpointLists :
         IF err \/ Len(l) = 0
         THEN /\ invPc' = "select"
              /\ UNCHANGED newEndpoints
         ELSE /\ newEndpoints' = l
              /\ invPc' = "each"
    /\ UNCHANGED <<parseVars, mapReaders, pubVars, flagVars, caURI, mainVars, crfVars, caVars, reqVars, sigVars,
                   HSMEndpoints, lastStatus, stale, lastFetch, loopVars>>

\* line 118: _, endpointIsKnown := HSMEndpoints[newEndpoint.ID]
endpointIsKnown(e) == e.ID \in DOMAIN HSMEndpoints

\* line 122 with the status test dropped (faulty variant)
StatusUsable_Any(e) == TRUE

\* line 122: newEndpoint.DiscInfo.LastStatus != "DiscoverOK" is skipped
StatusUsable(e) == e.LastStatus = "DiscoverOK"

\* the map after HSMEndpoints[newEndpoint.ID] = &newEndpoint (line 145)
Inserted(e) ==
    [id \in DOMAIN HSMEndpoints \cup {e.ID} |->
        IF id = e.ID THEN e ELSE HSMEndpoints[id]]

\* line 132 taking every credential fetch for a success (faulty variant)
CredentialsFailed_Never(updateErr) == FALSE

\* line 132 taking every credential fetch for a failure (faulty variant)
CredentialsFailed_Always(updateErr) == TRUE

\* line 132: if updateErr != nil
CredentialsFailed(updateErr) == updateErr

\* line 130: updateEndpointWithCredentials(&newEndpoint) puts the credentials
\* of the secret store into the description, unless it fails
WithCredentials(e, updateErr) ==
    IF updateErr THEN e ELSE [e EXCEPT !.creds = "vault"]

\* lines 114-146 with line 119 storing the description HSM returned for a
\* known endpoint instead of skipping it (faulty variant)
invEach_Refreshes ==
    /\ Alive
    /\ invPc = "each"
    /\ LET e == Head(newEndpoints) IN
       IF endpointIsKnown(e)
       THEN /\ lastFetch' = "none"
            /\ HSMEndpoints' = Inserted(e)
       ELSE IF ~StatusUsable(e)
       THEN /\ lastFetch' = "none"
            /\ UNCHANGED HSMEndpoints
       ELSE IF VaultEnabled
       THEN \E updateErr \in BOOLEAN :
              /\ lastFetch' = e.ID
              /\ IF CredentialsFailed(updateErr)
                 THEN UNCHANGED HSMEndpoints
                 ELSE HSMEndpoints' = Inserted(WithCredentials(e, updateErr))
       ELSE /\ HSMEndpoints' = Inserted(e)
            /\ lastFetch' = "none"
    /\ lastStatus' = [lastStatus EXCEPT
                        ![Head(newEndpoints).ID] = Head(newEndpoints).LastStatus]
    /\ newEndpoints' = Tail(newEndpoints)
    /\ invPc' = IF Len(newEndpoints) > 1 THEN "each" ELSE "select"
    /\ UNCHANGED <<parseVars, mapReaders, pubVars, flagVars, caURI, mainVars, crfVars, caVars, reqVars, sigVars,
                   stale, loopVars>>

\* lines 114-146: one iteration of the range loop; newEndpoints holds the
\* entries the loop has still to visit, newEndpoints[endpointIndex] first;
\* lastStatus records the status HSM reported for the endpoint visited
invEach ==
    /\ Alive
    /\ invPc = "each"
    /\ LET e == Head(newEndpoints) IN
       IF endpointIsKnown(e) \/ ~StatusUsable(e)
       THEN /\ lastFetch' = "none"
            /\ UNCHANGED HSMEndpoints
       ELSE IF VaultEnabled
       THEN \E updateErr \in BOOLEAN :
              /\ lastFetch' = e.ID
              /\ IF CredentialsFailed(updateErr)
                 THEN UNCHANGED HSMEndpoints
                 ELSE HSMEndpoints' = Inserted(WithCredentials(e, updateErr))
       ELSE /\ HSMEndpoints' = Inserted(e)
            /\ lastFetch' = "none"
    /\ lastStatus' = [lastStatus EXCEPT
                        ![Head(newEndpoints).ID] = Head(newEndpoints).LastStatus]
    /\ newEndpoints' = Tail(newEndpoints)
    /\ invPc' = IF Len(newEndpoints) > 1 THEN "each" ELSE "select"
    /\ UNCHANGED <<parseVars, mapReaders, pubVars, flagVars, caURI, mainVars, crfVars, caVars, reqVars, sigVars,
                   stale, loopVars>>

\* lines 153-154: the refresh timer fires, continue
invTimer ==
    /\ Alive
    /\ invPc = "select"
    /\ invPc' = "check"
    /\ UNCHANGED <<parseVars, mapReaders, pubVars, flagVars, caURI, mainVars, crfVars, caVars, reqVars, sigVars,
                   newEndpoints, HSMEndpoints,
                   lastStatus, stale, lastFetch, loopVars>>

(***************************************************************************)
(* doPolling: a fetch that comes back 401 marks the endpoint's credentials *)
(* stale                                                                   *)
(***************************************************************************)
pollUnauthorized ==
    /\ Alive
    /\ pollPc = "running"
    /\ \E id \in DOMAIN HSMEndpoints \ stale : stale' = stale \cup {id}
    /\ UNCHANGED <<parseVars, mapReaders, pubVars, flagVars, caURI, mainVars, crfVars, caVars, reqVars, sigVars,
                   invPc, newEndpoints, HSMEndpoints,
                   lastStatus, lastFetch, loopVars>>

(***************************************************************************)
(* doPolling and doRFSubscribe go through HSMEndpoints on each of their    *)
(* ticks: the read of the map lasts from the first entry to the last       *)
(***************************************************************************)
MapReaderTasks == {"polling", "subscribe"}

mapReadStart(t) ==
    /\ Alive
    /\ t \notin mapReaders
    /\ IF t = "polling" THEN pollPc = "running" ELSE subPc = "running"
    /\ mapReaders' = mapReaders \cup {t}
    /\ UNCHANGED <<parseVars, pubVars, flagVars, caURI, mainVars, crfVars, caVars, reqVars,
                   sigVars, invVars, loopVars>>

mapReadEnd(t) ==
    /\ Alive
    /\ t \in mapReaders
    /\ mapReaders' = mapReaders \ {t}
    /\ UNCHANGED <<parseVars, pubVars, flagVars, caURI, mainVars, crfVars, caVars, reqVars,
                   sigVars, invVars, loopVars>>

mapRead == \E t \in MapReaderTasks : mapReadStart(t) \/ mapReadEnd(t)

(***************************************************************************)
(* The CA bundle watcher and caChangeCB (hmcollector.go:245-253).  The     *)
(* watcher reports one roll at a time: the bundle at the URI is the rolled *)
(* bundle for as long as the callback runs.                                *)
(***************************************************************************)
\* the bundle is rolled and the watcher calls caChangeCB (lines 245-247)
caChangeCB ==
    /\ Alive
    /\ watcherRegistered
    /\ crfPc["watcher"] = "idle"
    /\ bundle <= MaxRolls
    /\ bundle' = bundle + 1
    /\ CallCreateRFClient("watcher")
    /\ UNCHANGED <<parseVars, mapReaders, pubVars, flagVars, caURI, mainVars, lastReload, reqVars, sigVars,
                   invVars, loopVars>>

\* lines 248-253: createRFClient returned, the callback logs and returns
caChangeCBRet ==
    /\ Alive
    /\ crfPc["watcher"] = "ret"
    /\ crfReturn("watcher")
    /\ lastReload' = [bundle |-> bundle, err |-> crfErr["watcher"]]
    /\ UNCHANGED <<parseVars, mapReaders, pubVars, flagVars, caURI, mainVars, crfErr, rfClient, rfClientLock,
                   bundle, reqVars, sigVars, invVars, loopVars>>

(***************************************************************************)
(* A Redfish request of a polling or subscription worker: RLock, use       *)
(* rfClient, RUnlock                                                       *)
(***************************************************************************)
reqStart(r) ==
    /\ Alive
    /\ pollPc = "running" \/ subPc = "running"
    /\ reqPc[r] = "idle"
    /\ rfClientLock.writer = "none"
    /\ rfClientLock.pending = {}
    /\ rfClientLock' = [rfClientLock EXCEPT !.readers = @ \cup {r}]
    /\ reqPc' = [reqPc EXCEPT ![r] = "inflight"]
    /\ reqClient' = [reqClient EXCEPT ![r] = rfClient]
    /\ reqAfter' = [reqAfter EXCEPT ![r] = lastReload]
    /\ UNCHANGED <<parseVars, mapReaders, pubVars, flagVars, caURI, mainVars, crfPc, crfErr, rfClient, caVars,
                   sigVars, invVars, loopVars>>

reqEnd(r) ==
    /\ Alive
    /\ reqPc[r] = "inflight"
    /\ rfClientLock' = [rfClientLock EXCEPT !.readers = @ \ {r}]
    /\ reqPc' = [reqPc EXCEPT ![r] = "idle"]
    /\ reqClient' = [reqClient EXCEPT ![r] = NoClient]
    /\ reqAfter' = [reqAfter EXCEPT ![r] = NoReload]
    /\ UNCHANGED <<parseVars, mapReaders, pubVars, flagVars, caURI, mainVars, crfPc, crfErr, rfClient, caVars,
                   sigVars, invVars, loopVars>>

request == \E r \in Requesters : reqStart(r) \/ reqEnd(r)

(***************************************************************************)
(* IntelRiverCollector parsers (river_collector: ParseJSONPowerEvents,     *)
(* ParseJSONThermalEvents).  payloadBytes is the document the bytes hold;  *)
(* readings are in hundredths of their unit.                               *)
(***************************************************************************)
\* strconv.ParseUint(s, 10, 8): bitSize 8
MaxUint8 == 255

\* most entries a document holds, over all its arrays
MaxEntries == 3
\* most seconds the clock advances during a call
MaxClock == 1

PowerMessageID == "CrayTelemetry.Power"
VoltageMessageID == "CrayTelemetry.Voltage"
TemperatureMessageID == "CrayTelemetry.Temperature"

MemberIds == {<<"0">>, <<"1">>, <<"2", "5", "6">>, <<"x">>}
ControlNames == {"Server Power Control", "Fan Power Control"}
VoltageNames == {<<>>, <<"P">>, <<"P", "1">>, <<"P", "1", "2">>,
                 <<"P", "1", "2", " ", "V", "D", "D">>}
TemperatureNames == {<<"C", "P", "U", "1">>}

PowerControls ==
    [Name : ControlNames, MemberId : MemberIds, PowerConsumedWatts : {31250}]
PowerSupplies == [MemberId : MemberIds, LineInputVoltage : {20800}]
Voltages == [Name : VoltageNames, ReadingVolts : {1201}]
Temperatures == [Name : TemperatureNames, ReadingCelsius : {4200}]

\* bytes json.Unmarshal rejects
Undecodable ==
    [decodes |-> FALSE, PowerControl |-> <<>>, PowerSupplies |-> <<>>,
     Voltages |-> <<>>, Temperatures |-> <<>>]

\* the sequences of length n over S
SeqsOfLen(S, n) == [1..n -> S]

\* the documents of a Power resource, MaxEntries entries at most
PowerDocuments ==
    UNION { { [decodes |-> TRUE, PowerControl |-> pc, PowerSupplies |-> ps,
               Voltages |-> v, Temperatures |-> <<>>] :
                pc \in SeqsOfLen(PowerControls, n[1]),
                ps \in SeqsOfLen(PowerSupplies, n[2]),
                v \in SeqsOfLen(Voltages, n[3]) } :
            n \in { m \in (0..MaxEntries) \X (0..MaxEntries) \X (0..MaxEntries) :
                      m[1] + m[2] + m[3] <= MaxEntries } }

\* the documents of a Thermal resource
ThermalDocuments ==
    UNION { { [decodes |-> TRUE, PowerControl |-> <<>>, PowerSupplies |-> <<>>,
               Voltages |-> <<>>, Temperatures |-> t] :
                t \in SeqsOfLen(Temperatures, n) } : n \in 0..MaxEntries }

Documents == {Undecodable} \cup PowerDocuments \cup ThermalDocuments

DigitValue(c) ==
    CASE c = "0" -> 0 [] c = "1" -> 1 [] c = "2" -> 2 [] c = "3" -> 3
      [] c = "4" -> 4 [] c = "5" -> 5 [] c = "6" -> 6 [] c = "7" -> 7
      [] c = "8" -> 8 [] c = "9" -> 9 [] OTHER -> -1

\* strconv.ParseUint from character i on, n parsed so far: a character that
\* is no digit is a syntax error with value 0; a value above the maximum is
\* a range error with the maximum as value
RECURSIVE ParseUintFrom(_, _, _)
ParseUintFrom(s, i, n) ==
    IF i > Len(s) THEN [val |-> n, err |-> "nil"]
    ELSE IF DigitValue(s[i]) < 0 THEN [val |-> 0, err |-> "syntax"]
    ELSE IF n * 10 + DigitValue(s[i]) > MaxUint8
         THEN [val |-> MaxUint8, err |-> "range"]
    ELSE ParseUintFrom(s, i + 1, n * 10 + DigitValue(s[i]))

\* strconv.ParseUint(s, 10, 8)
ParseUint(s) ==
    IF Len(s) = 0 THEN [val |-> 0, err |-> "syntax"] ELSE ParseUintFrom(s, 1, 0)

\* uint8(indexU64)
Uint8(n) == n % (MaxUint8 + 1)

DigitChar(d) ==
    CASE d = 0 -> "0" [] d = 1 -> "1" [] d = 2 -> "2" [] d = 3 -> "3"
      [] d = 4 -> "4" [] d = 5 -> "5" [] d = 6 -> "6" [] d = 7 -> "7"
      [] d = 8 -> "8" [] OTHER -> "9"

RECURSIVE Decimal(_)
Decimal(n) ==
    IF n < 10 THEN DigitChar(n) ELSE Decimal(n \div 10) \o DigitChar(n % 10)

\* strconv.FormatFloat(f, 'f', -1, 64) of h hundredths: the shortest decimal
FormatFloat(h) ==
    LET whole == h \div 100
        frac == h % 100
    IN  IF frac = 0 THEN Decimal(whole)
        ELSE IF frac % 10 = 0 THEN Decimal(whole) \o "." \o DigitChar(frac \div 10)
        ELSE Decimal(whole) \o "." \o DigitChar(frac \div 10)
                 \o DigitChar(frac % 10)

\* the payload with its Location left unset (faulty variant)
NewPayload_NoLocation(loc) ==
    [Timestamp |-> timestamp, Location |-> "", PhysicalContext |-> "",
     DeviceSpecificContext |-> <<>>, Index |-> 0, ParentalIndex |-> "nil",
     Value |-> ""]

\* hmcollector.CrayJSONPayload{Index: new(uint8)} with Timestamp and Location
NewPayload(loc) ==
    [Timestamp |-> timestamp, Location |-> loc, PhysicalContext |-> "",
     DeviceSpecificContext |-> <<>>, Index |-> 0, ParentalIndex |-> "nil",
     Value |-> ""]

\* the index of lines 41-42 and 67-68; the error of ParseUint is dropped
MemberIndex(id) == Uint8(ParseUint(id).val)

\* lines 32-47: a payload for each entry named "Server Power Control"
RECURSIVE PowerControlSensors(_, _)
PowerControlSensors(l, loc) ==
    IF l = <<>> THEN <<>>
    ELSE (IF Head(l).Name = "Server Power Control"
          THEN << [NewPayload(loc) EXCEPT
                     !.PhysicalContext = "Chassis",
                     !.Index = MemberIndex(Head(l).MemberId),
                     !.Value = FormatFloat(Head(l).PowerConsumedWatts)] >>
          ELSE <<>>)
         \o PowerControlSensors(Tail(l), loc)

\* lines 59-72: a payload for each power supply
RECURSIVE PowerSupplySensors(_, _)
PowerSupplySensors(l, loc) ==
    IF l = <<>> THEN <<>>
    ELSE << [NewPayload(loc) EXCEPT
               !.PhysicalContext = "PowerSupplyBay",
               !.Index = MemberIndex(Head(l).MemberId),
               !.Value = FormatFloat(Head(l).LineInputVoltage)] >>
         \o PowerSupplySensors(Tail(l), loc)

\* line 83: Voltage.Name[3:len(Voltage.Name)] is in bounds
SliceInBounds(name) == Len(name) >= 3

\* line 83 slicing from index 2 (faulty variant)
NameFrom2(name) == SubSeq(name, 3, Len(name))

\* line 83: Voltage.Name[3:len(Voltage.Name)]
NameFrom3(name) == SubSeq(name, 4, Len(name))

\* lines 75-87: a payload for each voltage reading
RECURSIVE VoltageSensors(_, _)
VoltageSensors(l, loc) ==
    IF l = <<>> THEN <<>>
    ELSE << [NewPayload(loc) EXCEPT
               !.PhysicalContext = "SystemBoard",
               !.DeviceSpecificContext = NameFrom3(Head(l).Name),
               !.Value = FormatFloat(Head(l).ReadingVolts)] >>
         \o VoltageSensors(Tail(l), loc)

\* the slice of line 83 panics on one of the readings
VoltagesPanic(l) == \E i \in 1..Len(l) : ~SliceInBounds(l[i].Name)

\* lines 111-124: a payload for each temperature reading
RECURSIVE TemperatureSensors(_, _)
TemperatureSensors(l, loc) ==
    IF l = <<>> THEN <<>>
    ELSE << [NewPayload(loc) EXCEPT
               !.ParentalIndex = 0,
               !.PhysicalContext = "Baseboard",
               !.Value = FormatFloat(Head(l).ReadingCelsius),
               !.DeviceSpecificContext = Head(l).Name] >>
         \o TemperatureSensors(Tail(l), loc)

Event(id, ts, sensors) ==
    [MessageId |-> id, EventTimestamp |-> ts, TelemetrySource |-> "River",
     Sensors |-> sensors]

\* the parser is called; its first statement reads the clock (lines 16, 96)
parseCall ==
    /\ pPc = "idle"
    /\ \E k \in {"power", "thermal"}, d \in Documents, loc \in EndpointIDs :
         /\ kind' = k
         /\ payloadBytes' = d
         /\ location' = loc
    /\ timestamp' = now
    /\ pPc' = "called"
    /\ UNCHANGED <<now, events, sysVars>>

\* lines 18-22 and 98-102: json.Unmarshal; a decode error returns no events
parseDecode ==
    /\ pPc = "called"
    /\ pPc' = IF payloadBytes.decodes THEN "decoded" ELSE "returned"
    /\ UNCHANGED <<kind, payloadBytes, location, now, timestamp, events, sysVars>>

\* lines 24-91: the power event (its EventTimestamp reads the clock again),
\* the voltage event, return; or the panic of line 83
parsePower ==
    /\ pPc = "decoded"
    /\ kind = "power"
    /\ IF VoltagesPanic(payloadBytes.Voltages)
       THEN /\ pPc' = "panicked"
            /\ UNCHANGED events
       ELSE /\ pPc' = "returned"
            /\ events' =
                 << Event(PowerMessageID, now,
                          PowerControlSensors(payloadBytes.PowerControl, location)),
                    Event(VoltageMessageID, timestamp,
                          PowerSupplySensors(payloadBytes.PowerSupplies, location)
                            \o VoltageSensors(payloadBytes.Voltages, location)) >>
    /\ UNCHANGED <<kind, payloadBytes, location, now, timestamp, sysVars>>

\* lines 104-128: the temperature event, return
parseThermal ==
    /\ pPc = "decoded"
    /\ kind = "thermal"
    /\ pPc' = "returned"
    /\ events' =
         << Event(TemperatureMessageID, timestamp,
                  TemperatureSensors(payloadBytes.Temperatures, location)) >>
    /\ UNCHANGED <<kind, payloadBytes, location, now, timestamp, sysVars>>

\* a second passes on the wall clock
clockTick ==
    /\ pPc \in {"idle", "called", "decoded"}
    /\ now < MaxClock
    /\ now' = now + 1
    /\ UNCHANGED <<pPc, kind, payloadBytes, location, timestamp, events, sysVars>>

\* lines 14-15 and 94-95: all a caller receives from a parser is the named
\* result events; decodeErr stays inside the call (lines 19-22, 99-102)
CallerSees == [events |-> events]

(***************************************************************************)
(* The specification                                                       *)
(***************************************************************************)
\* no parser call is modelled
ParserIdle ==
    /\ pPc = "idle"
    /\ kind = "none"
    /\ payloadBytes = Undecodable
    /\ location = ""
    /\ now = 0
    /\ timestamp = 0
    /\ events = <<>>

\* the flags as flag.Parse may set them
Flags ==
    /\ pollingEnabled \in BOOLEAN
    /\ rfSubscribeEnabled \in BOOLEAN
    /\ VaultEnabled \in BOOLEAN
    /\ smURL \in {"", "sm"}
    /\ restURL \in {"", "rest"}
    /\ caURI \in {"", "ca"}

\* the flags' default values (lines 40-62)
DefaultFlags ==
    /\ pollingEnabled = FALSE
    /\ rfSubscribeEnabled = FALSE
    /\ VaultEnabled = TRUE
    /\ smURL = ""
    /\ restURL = ""
    /\ caURI = ""

\* the package variables when main starts (lines 71-91)
Started ==
    /\ mainPc = "create"
    /\ ix = 1
    /\ ok = FALSE
    /\ watcherRegistered = FALSE
    /\ WaitGroup = 0
    /\ RestSRV = "nil"
    /\ crfPc = [c \in Callers |-> "idle"]
    /\ crfErr = [c \in Callers |-> FALSE]
    /\ rfClient = NoClient
    /\ rfClientLock = NoLock
    /\ bundle = 1
    /\ lastReload = NoReload
    /\ reqPc = [r \in Requesters |-> "idle"]
    /\ reqClient = [r \in Requesters |-> NoClient]
    /\ reqAfter = [r \in Requesters |-> NoReload]
    /\ sigPending = FALSE
    /\ sigPc = "none"
    /\ Running = TRUE
    /\ cancelled = FALSE
    /\ invPc = "none"
    /\ newEndpoints = <<>>
    /\ HSMEndpoints = <<>>
    /\ lastStatus = [id \in EndpointIDs |-> "none"]
    /\ stale = {}
    /\ lastFetch = "none"
    /\ pollPc = "none"
    /\ subPc = "none"
    /\ kafkaBrokers = <<>>
    /\ flushes = <<>>
    /\ panicMsg = ""
    /\ mapReaders = {}

Init == Flags /\ Started /\ ParserIdle

\* main, the signal handler and the inventory loop
Next ==
    \/ mainCreate \/ mainCreateRet \/ mainFailover \/ mainFailoverRet
    \/ mainRegister \/ mainRest \/ mainSignal \/ mainVault \/ mainKafka
    \/ mainInventory \/ mainPolling \/ mainSubscribe \/ mainExit \/ mainFlush
    \/ crfStep
    \/ sigArrives \/ sigReceive \/ sigSkipHSM \/ sigSendHSM \/ sigSendSub
    \/ sigSendPoll \/ sigRestShutdown \/ restExit
    \/ invCheck \/ invGet \/ invEach \/ invTimer
    \/ pollUnauthorized

Spec == Init /\ [][Next]_vars

\* main up to WaitGroup.Wait(), the CA watcher and the Redfish requests
TrustNext ==
    \/ mainCreate \/ mainCreateRet \/ mainFailover \/ mainFailoverRet
    \/ mainRegister \/ mainRest \/ mainSignal \/ mainVault \/ mainKafka
    \/ mainInventory \/ mainPolling \/ mainSubscribe
    \/ crfStep
    \/ caChangeCB \/ caChangeCBRet
    \/ request

TrustSpec == Init /\ [][TrustNext]_vars

\* startup, the inventory loop and the readers of the inventory
InventoryNext ==
    \/ mainCreate \/ mainCreateRet \/ mainFailover \/ mainFailoverRet
    \/ mainRegister \/ mainRest \/ mainSignal \/ mainVault \/ mainKafka
    \/ mainInventory \/ mainPolling \/ mainSubscribe
    \/ crfStep
    \/ invCheck \/ invGet \/ invEach \/ invTimer
    \/ mapRead

InventorySpec == Init /\ [][InventoryNext]_vars

\* the iteration of lines 114-146 that inserts endpoint id: it is not known,
\* its status is DiscoverOK and, with the secret store, its credentials are
\* fetched
InsertStep(id) ==
    /\ invEach
    /\ id \notin DOMAIN HSMEndpoints
    /\ id \in DOMAIN HSMEndpoints'

\* startup and the inventory loop
InventoryLiveNext ==
    \/ mainCreate \/ mainCreateRet \/ mainFailover \/ mainFailoverRet
    \/ mainRegister \/ mainRest \/ mainSignal \/ mainVault \/ mainKafka
    \/ mainInventory \/ mainPolling \/ mainSubscribe
    \/ crfStep
    \/ invCheck \/ invGet \/ invEach \/ invTimer

\* startup and the inventory loop, with the secret store answering in the
\* end: a credential fetch that is made again and again does not fail for
\* ever
InventoryLiveSpec ==
    /\ Init
    /\ [][InventoryLiveNext]_vars
    /\ \A id \in EndpointIDs : SF_vars(InsertStep(id))

\* one call of a parser, on any document
ParserInit == DefaultFlags /\ Started /\ ParserIdle

ParserNext == parseCall \/ parseDecode \/ parsePower \/ parseThermal \/ clockTick

ParserSpec == ParserInit /\ [][ParserNext]_vars

(***************************************************************************)
(* Properties                                                              *)
(***************************************************************************)

\* C1 as stated: every endpoint held in HSMEndpoints is one whose most recent
\* status reported by HSM is DiscoverOK.
C1_MostRecentStatusOK ==
    \A id \in DOMAIN HSMEndpoints : lastStatus[id] = "DiscoverOK"

\* C1 as amended: every endpoint held in HSMEndpoints was reported by HSM with
\* status DiscoverOK in the response it was inserted from (the description
\* the map holds has that status), whatever HSM has reported about it since.
C1_InsertedWhenDiscoverOK ==
    \A id \in DOMAIN HSMEndpoints : HSMEndpoints[id].LastStatus = "DiscoverOK"

\* an endpoint is in the inventory and HSM has since reported another status
C1_Witness ==
    \E id \in DOMAIN HSMEndpoints :
        /\ lastStatus[id] # "DiscoverOK"
        /\ HSMEndpoints[id].LastStatus = "DiscoverOK"

\* C2: after the signal the handler never blocks forever on a send to a
\* shutdown channel: it is never left at the send to
\* hsmEndpointRefreshShutdown when the inventory loop, the only receiver, has
\* returned.
C2_HandlerNeverBlocksForever ==
    ~(Alive /\ sigPc = "send_hsm" /\ invPc = "exited")

\* C3 as stated: a request started after a trust reload for bundle B has
\* returned uses a client pair built from B (or from a bundle rolled since),
\* whatever the outcome of the construction inside the reload.
C3_RequestAfterReloadUsesNewBundle ==
    \A r \in Requesters :
        (reqPc[r] = "inflight" /\ reqAfter[r] # NoReload)
            => /\ reqClient[r].ca = caURI
               /\ reqClient[r].bundle >= reqAfter[r].bundle

\* C3 as amended: a request started after a trust reload for bundle B has
\* returned without error uses a client pair built from B (or from a bundle
\* rolled since).
C3_RequestAfterGoodReloadUsesNewBundle ==
    \A r \in Requesters :
        (reqPc[r] = "inflight" /\ reqAfter[r] # NoReload /\ ~reqAfter[r].err)
            => /\ reqClient[r].ca = caURI
               /\ reqClient[r].bundle >= reqAfter[r].bundle

\* a request in flight that started after the reload for a rolled bundle
\* returned without error, on the pair built from that bundle
C3_Witness ==
    \E r \in Requesters :
        /\ reqPc[r] = "inflight"
        /\ reqAfter[r].bundle > 1
        /\ ~reqAfter[r].err
        /\ reqClient[r].bundle = reqAfter[r].bundle

\* C4: rfClient is assigned only while the writer side of rfClientLock is
\* held and no request holds a read lease; while the writer side is held no
\* read lease exists and none is granted.
C4_SwapOnlyUnderWriterLock ==
    /\ [](rfClientLock.writer # "none" => rfClientLock.readers = {})
    /\ [][rfClient' # rfClient
            => (rfClientLock.writer # "none" /\ rfClientLock.readers = {})]_vars
    /\ [][rfClientLock.writer # "none"
            => rfClientLock'.readers \subseteq rfClientLock.readers]_vars

\* a reload waits for the lock behind a request in flight, after an earlier
\* reload has swapped the pair
C4_Witness ==
    /\ crfPc["watcher"] = "lock"
    /\ rfClientLock.readers # {}
    /\ rfClient.bundle > 1

\* C5: every event a parser returns for a document that decodes carries at
\* least one sensor payload.
C5_NoEmptyEvent ==
    (pPc = "returned" /\ payloadBytes.decodes)
        => \A i \in 1..Len(events) : Len(events[i].Sensors) > 0

\* C6: the iteration of the inventory loop that visits an endpoint that is in
\* the inventory and whose credentials are marked stale fetches its
\* credentials from the secret store.
C6_StaleCredentialsRefetched ==
    [][(/\ invPc = "each"
        /\ newEndpoints' # newEndpoints
        /\ VaultEnabled
        /\ Head(newEndpoints).ID \in stale)
            => lastFetch' = Head(newEndpoints).ID]_vars

\* main is past the creation of the client pair
ClientCreationOver ==
    mainPc \notin {"create", "create_ret", "checkok", "failover_ret", "panicked"}

\* C7: the retry loop makes at most 10 attempts and none after a success;
\* when all 10 failed the CA URI is cleared, a pair without CA bundle is
\* made, no watcher is registered and no reload ever runs; startup that goes
\* on has a client pair.
C7_StartupClientPair ==
    /\ mainPc \in {"create", "create_ret"} => (ix \in 1..MaxAttempts /\ ~ok)
    /\ (mainPc = "checkok" /\ ~ok) => ix = MaxAttempts + 1
    /\ mainPc = "failover_ret" => (~ok /\ caURI = "" /\ ix = MaxAttempts + 1)
    /\ (ClientCreationOver /\ ~ok)
         => /\ caURI = ""
            /\ rfClient = [ca |-> "", bundle |-> 0]
            /\ ~watcherRegistered
            /\ crfPc["watcher"] = "idle"
            /\ lastReload = NoReload
    /\ ClientCreationOver => rfClient # NoClient

\* all attempts failed and startup has gone on to WaitGroup.Wait() with the
\* pair made without a CA bundle
C7_Witness ==
    /\ mainPc = "wait"
    /\ ~ok
    /\ ix = MaxAttempts + 1
    /\ rfClient = [ca |-> "", bundle |-> 0]

\* C8: the power parser returns normally, and for every voltage reading
\* whose Name has fewer than four characters the voltage event holds its
\* SystemBoard payload with an empty device-specific context.
C8_ShortVoltageNameEmitted ==
    (pPc \in {"returned", "panicked"} /\ kind = "power" /\ payloadBytes.decodes)
        => /\ pPc = "returned"
           /\ \A i \in 1..Len(payloadBytes.Voltages) :
                Len(payloadBytes.Voltages[i].Name) < 4
                    => LET p == events[2].Sensors[Len(payloadBytes.PowerSupplies) + i]
                       IN  /\ p.PhysicalContext = "SystemBoard"
                           /\ p.DeviceSpecificContext = <<>>

\* the number a member identifier denotes, -1 when it is no number
RECURSIVE NumericValue(_)
NumericValue(s) ==
    IF Len(s) = 0 THEN -1
    ELSE IF DigitValue(s[Len(s)]) < 0 THEN -1
    ELSE IF Len(s) = 1 THEN DigitValue(s[1])
    ELSE LET rest == NumericValue(SubSeq(s, 1, Len(s) - 1))
         IN  IF rest < 0 THEN -1 ELSE rest * 10 + DigitValue(s[Len(s)])

InRange(id) == NumericValue(id) \in 0..MaxUint8

\* C9: the power parser emits a payload only for the PowerControl and
\* PowerSupplies entries whose member identifier denotes a number in 0..255:
\* the power event holds as many payloads as there are such entries named
\* "Server Power Control", and the voltage event as many as there are such
\* power supplies (and voltage readings).
C9_OutOfRangeMemberIdSkipped ==
    (pPc = "returned" /\ kind = "power" /\ payloadBytes.decodes)
        => /\ Len(events[1].Sensors) =
                Cardinality({i \in 1..Len(payloadBytes.PowerControl) :
                    /\ payloadBytes.PowerControl[i].Name = "Server Power Control"
                    /\ InRange(payloadBytes.PowerControl[i].MemberId)})
           /\ Len(events[2].Sensors) =
                Cardinality({i \in 1..Len(payloadBytes.PowerSupplies) :
                    InRange(payloadBytes.PowerSupplies[i].MemberId)})
                + Len(payloadBytes.Voltages)

\* the document of scenario S1
S1 ==
    [decodes |-> TRUE,
     PowerControl |-> << [Name |-> "Server Power Control", MemberId |-> <<"0">>,
                          PowerConsumedWatts |-> 31250] >>,
     PowerSupplies |-> << [MemberId |-> <<"1">>, LineInputVoltage |-> 20800] >>,
     Voltages |-> << [Name |-> <<"P", "1", "2", " ", "V", "D", "D">>,
                      ReadingVolts |-> 1201] >>,
     Temperatures |-> <<>>]

\* what scenario S1 expects of the returned events, the rail's
\* device-specific context being dsc
S1Expected(dsc) ==
    /\ Len(events) = 2
    /\ events[1].MessageId = PowerMessageID
    /\ Len(events[1].Sensors) = 1
    /\ events[1].Sensors[1].Index = 0
    /\ events[1].Sensors[1].PhysicalContext = "Chassis"
    /\ events[1].Sensors[1].Value = "312.5"
    /\ events[2].MessageId = VoltageMessageID
    /\ Len(events[2].Sensors) = 2
    /\ events[2].Sensors[1].Index = 1
    /\ events[2].Sensors[1].PhysicalContext = "PowerSupplyBay"
    /\ events[2].Sensors[1].Value = "208"
    /\ events[2].Sensors[2].PhysicalContext = "SystemBoard"
    /\ events[2].Sensors[2].DeviceSpecificContext = dsc
    /\ events[2].Sensors[2].Value = "12.01"

S1Parsed == pPc = "returned" /\ kind = "power" /\ payloadBytes = S1

\* C10 as stated: for S1 the power parser returns the power event with the
\* Chassis payload of index 0 and the voltage event with the PowerSupplyBay
\* payload of index 1 followed by the SystemBoard payload whose
\* device-specific context is "2 VDD".
C10_S1_Rail2VDD == S1Parsed => S1Expected(<<"2", " ", "V", "D", "D">>)

\* C10 as amended: the same, the device-specific context of the SystemBoard
\* payload being " VDD", the name "P12 VDD" without its first three
\* characters.
C10_S1_RailVDD == S1Parsed => S1Expected(<<" ", "V", "D", "D">>)

\* the power parser has returned from parsing S1
C10_Witness == S1Parsed /\ Len(events) = 2

\* what a caller receives from a successful parse that made no event
ZeroEventSuccess == [events |-> <<>>]

\* C11: when the payload bytes do not decode, the parser returns no events
\* and what the caller receives differs from what it receives from a
\* successful parse that produced zero events.
C11_DecodeFailureSignalled ==
    (pPc = "returned" /\ ~payloadBytes.decodes)
        => /\ events = <<>>
           /\ CallerSees # ZeroEventSuccess

\* C12 as stated: the components are started in the order client pair, Kafka
\* connections, REST server, inventory loop, polling and subscription loops:
\* none is started before the ones that precede it.
C12_StartupOrder ==
    /\ kafkaBrokers # <<>> => rfClient # NoClient
    /\ RestSRV # "nil" => kafkaBrokers # <<>>
    /\ invPc # "none" => RestSRV # "nil"
    /\ (pollPc # "none" \/ subPc # "none") => invPc # "none"

\* C12 as amended: the components are started in the order client pair, REST
\* server, Kafka connections, inventory loop, polling and subscription
\* loops: none is started before the ones that precede it.
C12_StartupOrderRestFirst ==
    /\ RestSRV # "nil" => rfClient # NoClient
    /\ kafkaBrokers # <<>> => RestSRV # "nil"
    /\ invPc # "none" => kafkaBrokers # <<>>
    /\ (pollPc # "none" \/ subPc # "none") => invPc # "none"

\* startup has started every component
C12_Witness ==
    /\ mainPc = "wait"
    /\ rfClient # NoClient
    /\ RestSRV = "serving"
    /\ kafkaBrokers # <<>>
    /\ invPc # "none"
    /\ pollPc = "running"
    /\ subPc = "running"

\* C13: the flush of the Kafka producers happens only after every task
\* registered in the WaitGroup (REST server, polling, subscription) has
\* finished; each configured broker is flushed at most once, in the order of
\* the list, with a timeout of 15 seconds, and the number of messages the
\* flush abandoned is the number logged; when main has returned every
\* configured broker has been flushed.
C13_FlushAfterTasksOncePerBroker ==
    /\ (mainPc = "flush" \/ flushes # <<>>)
          => /\ WaitGroup = 0
             /\ RestSRV = "exited"
             /\ pollPc # "running"
             /\ subPc # "running"
    /\ Len(flushes) <= Len(kafkaBrokers)
    /\ \A i \in 1..Len(flushes) :
          /\ flushes[i].broker = kafkaBrokers[i]
          /\ flushes[i].timeoutMs = 15 * 1000
          /\ flushes[i].logged = flushes[i].abandoned
    /\ mainPc = "done" => Len(flushes) = Len(kafkaBrokers)

\* main has returned after a shutdown with both loops running and two
\* brokers, one of which abandoned a message
C13_Witness ==
    /\ mainPc = "done"
    /\ pollPc = "exited"
    /\ subPc = "exited"
    /\ Len(flushes) = 2
    /\ flushes[2].abandoned = 1

\* a loop has been signalled to exit
SomeLoopSignalled ==
    \/ sigPc \in {"send_sub", "send_poll", "rest_shutdown", "done"}
    \/ invPc = "check_sync"
    \/ subPc = "exited"
    \/ pollPc = "exited"

\* the handler is past its sends: every loop that runs has been signalled
AllLoopsSignalled ==
    /\ sigPc \in {"rest_shutdown", "done"}
    /\ pollPc # "running"
    /\ subPc # "running"
    /\ (pollingEnabled \/ rfSubscribeEnabled) => invPc \in {"check_sync", "exited"}

\* the REST server has been shut down
RestShut == RestSRV \in {"shutdown", "exited"}

\* C14 as stated: on shutdown the root context is cancelled, then the loops
\* are signalled, then the publisher is flushed, then the REST server is shut
\* down: the REST server is never shut down before every broker has been
\* flushed.
C14_ShutdownOrder ==
    /\ SomeLoopSignalled => cancelled
    /\ flushes # <<>> => AllLoopsSignalled
    /\ RestShut => /\ mainPc \in {"flush", "done"}
                   /\ Len(flushes) = Len(kafkaBrokers)

\* C14 as amended: on shutdown the root context is cancelled, then the loops
\* are signalled, then the REST server is shut down, and the publisher is
\* flushed last, after the REST server has stopped: no broker is flushed
\* before the REST server has been shut down.
C14_ShutdownOrderFlushLast ==
    /\ SomeLoopSignalled => cancelled
    /\ RestShut => AllLoopsSignalled
    /\ (mainPc \in {"flush", "done"} \/ flushes # <<>>)
          => /\ RestSRV = "exited"
             /\ AllLoopsSignalled
             /\ cancelled

\* a complete shutdown: the loops have exited, the REST server has stopped,
\* the brokers are flushed and main has returned
C14_Witness ==
    /\ mainPc = "done"
    /\ cancelled
    /\ invPc = "exited"
    /\ pollPc = "exited"
    /\ RestSRV = "exited"
    /\ Len(flushes) = Len(kafkaBrokers)

\* a mandatory URL is missing for a mode that is enabled
BadConfig ==
    \/ (pollingEnabled \/ rfSubscribeEnabled) /\ smURL = ""
    \/ rfSubscribeEnabled /\ restURL = ""

\* the panics of lines 382, 397 and 400
ConfigPanics ==
    {"State Manager URL can NOT be empty",
     "State Manager URL can NOT be empty!",
     "Redfish event target URL can NOT be empty!"}

\* C15: with a mandatory URL missing startup does not complete; startup
\* aborts for a missing URL only when one is missing, and when it does no
\* inventory, polling or subscription loop has been started.
C15_ConfigAbortBeforeLoops ==
    /\ BadConfig => mainPc # "wait"
    /\ panicMsg \in ConfigPanics
          => /\ BadConfig
             /\ mainPc = "panicked"
             /\ invPc = "none"
             /\ pollPc = "none"
             /\ subPc = "none"

\* C16: once startup has completed (main waits on the WaitGroup) no step
\* of a background task aborts the process: no failure of an HSM request,
\* of a credential fetch, of a trust reload or of the shutdown of the REST
\* server panics.
C16_NoBackgroundFailureAborts ==
    [][mainPc = "wait" => mainPc' # "panicked"]_vars

\* C17: every write of the inventory loop to HSMEndpoints is made while no
\* task is reading the map, and the inventory loop is the only writer.
C17_MapWrittenExclusively ==
    [][HSMEndpoints' # HSMEndpoints
         => (mapReaders = {} /\ invPc = "each")]_vars

\* C18: with the secret store enabled, every endpoint in the inventory holds
\* the credentials fetched from the secret store, and every step that puts
\* an endpoint into the inventory is one in which the credentials of that
\* endpoint were fetched, with success.
C18_InsertedOnlyWithCredentials ==
    /\ [](VaultEnabled
            => \A id \in DOMAIN HSMEndpoints : HSMEndpoints[id].creds = "vault")
    /\ [][(VaultEnabled /\ HSMEndpoints' # HSMEndpoints)
            => \E id \in EndpointIDs :
                 /\ id \notin DOMAIN HSMEndpoints
                 /\ DOMAIN HSMEndpoints' = DOMAIN HSMEndpoints \cup {id}
                 /\ lastFetch' = id
                 /\ HSMEndpoints'[id].creds = "vault"]_vars

\* with the secret store enabled, x1 is in the inventory and x2, reported
\* DiscoverOK, is not: its credential fetch failed
C18_Witness ==
    /\ VaultEnabled
    /\ DOMAIN HSMEndpoints = {"x1"}
    /\ lastStatus["x2"] = "DiscoverOK"
    /\ invPc = "select"

\* C19: every sensor payload of every event a parser returns carries the
\* timestamp the call took on entry and the location argument of the call.
C19_PayloadTimestampAndLocation ==
    pPc = "returned"
        => \A i \in 1..Len(events) :
             \A j \in 1..Len(events[i].Sensors) :
                /\ events[i].Sensors[j].Timestamp = timestamp
                /\ events[i].Sensors[j].Location = location
                /\ location \in EndpointIDs

\* the power parser, called for x2, has returned a power and a voltage event
\* with payloads, the clock having advanced during the call
C19_Witness ==
    /\ pPc = "returned"
    /\ kind = "power"
    /\ location = "x2"
    /\ now > timestamp
    /\ Len(events) = 2
    /\ Len(events[1].Sensors) > 0
    /\ Len(events[2].Sensors) > 1

\* the inventory loop has received the handler's send on
\* hsmEndpointRefreshShutdown: the handler is past line 348
ShutdownReceived ==
    /\ pollingEnabled \/ rfSubscribeEnabled
    /\ sigPc \in {"send_sub", "send_poll", "rest_shutdown", "done"}

\* C20: once the inventory loop has received the shutdown signal it is
\* either about to test Running, which it finds false, or has returned: it
\* asks HSM no more and goes through no further iteration.
C20_NoIterationAfterShutdown ==
    ShutdownReceived
        => /\ invPc \in {"check_sync", "exited"}
           /\ ~Running

\* the loop has returned after the shutdown signal, having filled the
\* inventory in earlier iterations
C20_Witness ==
    /\ ShutdownReceived
    /\ invPc = "exited"
    /\ DOMAIN HSMEndpoints = EndpointIDs

\* the running loop is at endpoint id in a response of HSM that reports it
\* DiscoverOK
VisitedDiscoverOK(id) ==
    /\ Alive
    /\ invPc = "each"
    /\ Head(newEndpoints).ID = id
    /\ Head(newEndpoints).LastStatus = "DiscoverOK"

\* C21: an endpoint that the running loop comes to again and again in
\* responses of HSM that report it DiscoverOK is eventually in the
\* inventory, the credential fetch not failing for ever, whatever happened
\* to it in earlier ticks.
C21_SkippedEndpointEventuallyInserted ==
    \A id \in EndpointIDs :
        []<>VisitedDiscoverOK(id) => <>(id \in DOMAIN HSMEndpoints)

\* x2, skipped in an earlier tick for its status, is visited again, now
\* reported DiscoverOK, and is not in the inventory yet
C21_Witness ==
    /\ VisitedDiscoverOK("x2")
    /\ lastStatus["x2"] = "HTTPsGetFailed"
    /\ "x2" \notin DOMAIN HSMEndpoints

\* C22: no step removes an entry of HSMEndpoints or changes the entry of an
\* ID that is in it, whatever HSM returns: the set of IDs only grows.
C22_KnownEntriesUntouched ==
    [][\A id \in DOMAIN HSMEndpoints :
          /\ id \in DOMAIN HSMEndpoints'
          /\ HSMEndpoints'[id] = HSMEndpoints[id]]_vars

\* a tick is over in which HSM reported x1, which is in the inventory, with
\* another status and did not report x2 DiscoverOK: x1 is there as it was
C22_Witness ==
    /\ invPc = "select"
    /\ DOMAIN HSMEndpoints = {"x1"}
    /\ HSMEndpoints["x1"].LastStatus = "DiscoverOK"
    /\ lastStatus["x1"] = "HTTPsGetFailed"
    /\ lastStatus["x2"] # "DiscoverOK"

\* the step of createRFClient, called by the watcher's callback, in which
\* the construction of the pair fails
ReloadBuildFails ==
    /\ crfPc["watcher"] = "build"
    /\ crfPc'["watcher"] = "ret"
    /\ crfErr'["watcher"]

\* the last reload has returned with an error and no other has begun
FailedReloadOver ==
    /\ lastReload.err
    /\ crfPc["watcher"] = "idle"

\* C23: the step of a trust reload in which the construction of the pair
\* fails leaves rfClient as it was and releases the writer lock; after the
\* reload has returned rfClient is the pair of an earlier bundle, the lock
\* is free of the reload, and a request started since is on that pair.
C23_FailedReloadKeepsClient ==
    /\ [][ReloadBuildFails
            => (rfClient' = rfClient /\ rfClientLock'.writer = "none")]_vars
    /\ [](FailedReloadOver
            => /\ rfClient.bundle < lastReload.bundle
               /\ rfClient # NoClient
               /\ rfClientLock.writer = "none"
               /\ rfClientLock.pending = {}
               /\ \A r \in Requesters :
                     (reqPc[r] = "inflight" /\ reqAfter[r] = lastReload)
                         => reqClient[r] = rfClient)

\* a request is in flight that started after the reload for bundle 3 failed,
\* on the pair of bundle 2
C23_Witness ==
    /\ FailedReloadOver
    /\ lastReload.bundle = 3
    /\ \E r \in Requesters :
          /\ reqPc[r] = "inflight"
          /\ reqAfter[r] = lastReload
          /\ reqClient[r].bundle = 2

IsServerPowerControl(c) == c.Name = "Server Power Control"

\* the events of a power parse are the power event, with a Chassis payload
\* for each "Server Power Control" entry, and the voltage event, with a
\* PowerSupplyBay payload for each power supply and then a SystemBoard
\* payload for each voltage reading, all in the order of the document
PowerEventsAsDocument ==
    LET ctl == SelectSeq(payloadBytes.PowerControl, IsServerPowerControl)
        ps == payloadBytes.PowerSupplies
        v == payloadBytes.Voltages
    IN  /\ Len(events) = 2
        /\ events[1].MessageId = PowerMessageID
        /\ events[2].MessageId = VoltageMessageID
        /\ Len(events[1].Sensors) = Len(ctl)
        /\ \A i \in 1..Len(ctl) :
              /\ events[1].Sensors[i].PhysicalContext = "Chassis"
              /\ events[1].Sensors[i].Index = MemberIndex(ctl[i].MemberId)
        /\ Len(events[2].Sensors) = Len(ps) + Len(v)
        /\ \A i \in 1..Len(ps) :
              /\ events[2].Sensors[i].PhysicalContext = "PowerSupplyBay"
              /\ events[2].Sensors[i].Index = MemberIndex(ps[i].MemberId)
        /\ \A i \in 1..Len(v) :
              /\ events[2].Sensors[Len(ps) + i].PhysicalContext = "SystemBoard"
              /\ events[2].Sensors[Len(ps) + i].DeviceSpecificContext
                    = NameFrom3(v[i].Name)

\* the events of a thermal parse are the temperature event, with a Baseboard
\* payload for each temperature reading, in the order of the document
ThermalEventsAsDocument ==
    LET t == payloadBytes.Temperatures
    IN  /\ Len(events) = 1
        /\ events[1].MessageId = TemperatureMessageID
        /\ Len(events[1].Sensors) = Len(t)
        /\ \A i \in 1..Len(t) :
              /\ events[1].Sensors[i].PhysicalContext = "Baseboard"
              /\ events[1].Sensors[i].DeviceSpecificContext = t[i].Name

\* C24: for every document that decodes the parser returns, the power
\* parser the power event and the voltage event, the thermal parser the
\* temperature event, with the payloads of the document's entries in their
\* order.
C24_EventsForEveryDecodedDocument ==
    (pPc \in {"returned", "panicked"} /\ payloadBytes.decodes)
        => /\ pPc = "returned"
           /\ kind = "power" => PowerEventsAsDocument
           /\ kind = "thermal" => ThermalEventsAsDocument

\* C25: in the events one parse call returns every event carries the
\* timestamp of each of its sensor payloads, and all events carry the same
\* timestamp, whatever the clock does during the call.
C25_TimestampsAgree ==
    pPc = "returned"
        => /\ \A i \in 1..Len(events) :
                \A j \in 1..Len(events[i].Sensors) :
                   events[i].EventTimestamp = events[i].Sensors[j].Timestamp
           /\ \A i, k \in 1..Len(events) :
                events[i].EventTimestamp = events[k].EventTimestamp

====
